---- MODULE Spec2Model ----
(***************************************************************************)
(* PCM WAV / Wave64 audio provider of Aegisub (src/audio_provider_pcm.cpp). *)
(*                                                                         *)
(* The file is a sequence of bytes.  The container parsers, the windowed   *)
(* mapper, the sample reader and the provider factory are translated from  *)
(* the source; every read of the file goes through EnsureRangeAccessible.  *)
(*                                                                         *)
(* Machine integers.  TLC's integers are 32 bits wide, so a byte of the    *)
(* model is a digit of radix ByteRadix instead of radix 256.  The layout   *)
(* of every structure (offsets and sizes in bytes) is the source's; an     *)
(* n-byte little-endian field holds values below ByteRadix^n, and unsigned *)
(* arithmetic on it wraps at that modulus, as uint16_t/uint32_t/uint64_t   *)
(* wrap at 256^n in the program.                                            *)
(*                                                                         *)
(* Three specifications.  Spec: CreatePCMAudioProvider on a small file of  *)
(* represented bytes, then FillBuffer calls.  SpecMap: EnsureRangeAccessible *)
(* calls on a provider over a file of megabytes to gigabytes, with an      *)
(* operating system that may refuse views.  SpecRace: two threads in       *)
(* FillBuffer on one such provider.                                        *)
(***************************************************************************)
EXTENDS Integers, Sequences, FiniteSets, TLC

\* ------------------------------------------------------------------------
\* Bounds of the model
\* ------------------------------------------------------------------------
\* number of values a byte of the model can take
ByteRadix == 8
\* longest chunk sequence of a generated file
MaxChunks == 3
\* largest start_sample / count of a FillBuffer request
MaxReq == 4
\* reads through a pointer outside the mapped region that a run follows
\* beyond the fault
MaxWildReads == 1
\* longest chunk index a constructor builds before the model leaves it
MaxIndexPoints == 4

\* ------------------------------------------------------------------------
\* Machine arithmetic
\* ------------------------------------------------------------------------
RECURSIVE Pow(_, _)
Pow(b, e) == IF e = 0 THEN 1 ELSE b * Pow(b, e - 1)

\* moduli of uint16_t, uint32_t, uint64_t
U16M == Pow(ByteRadix, 2)
U32M == Pow(ByteRadix, 4)
U64M == Pow(ByteRadix, 8)

\* unsigned wrap-around at modulus m
Wrap(x, m) == x % m

\* conversion of a uint64_t to int64_t (two's complement)
ToInt64(x) == IF 2 * x >= U64M THEN x - U64M ELSE x

\* x & ~(a-1) for a power of two a, on two's complement integers
AlignDown(x, a) == (x \div a) * a

Min(a, b) == IF a < b THEN a ELSE b
Max(a, b) == IF a > b THEN a ELSE b

\* ------------------------------------------------------------------------
\* Bytes, little-endian fields, identifiers
\* ------------------------------------------------------------------------
\* the model's digit for a byte value of the source
Byte(x) == (x + (x \div 32)) % ByteRadix

RECURSIVE Enc(_, _)
\* the n bytes of the little-endian field holding v
Enc(v, n) == IF n = 0 THEN << >> ELSE <<v % ByteRadix>> \o Enc(v \div ByteRadix, n - 1)

RECURSIVE LE(_, _, _)
\* the value of the n-byte little-endian field at byte offset off of mem
LE(mem, off, n) ==
    IF n = 0 THEN 0 ELSE mem[off + 1] + ByteRadix * LE(mem, off + 1, n - 1)

\* the n bytes at byte offset off of mem
Bytes(mem, off, n) == [i \in 1..n |-> mem[off + i]]

\* string literals "RIFF", "WAVE", "fmt ", "data" (and "LIST", an
\* unrelated chunk type) as ASCII bytes
FourccRIFF == <<Byte(82), Byte(73), Byte(70), Byte(70)>>
FourccWAVE == <<Byte(87), Byte(65), Byte(86), Byte(69)>>
Fourccfmt  == <<Byte(102), Byte(109), Byte(116), Byte(32)>>
Fourccdata == <<Byte(100), Byte(97), Byte(116), Byte(97)>>
FourccLIST == <<Byte(76), Byte(73), Byte(83), Byte(84)>>

CheckFourcc(str1, str2) ==
    /\ str1[1] = str2[1]
    /\ str1[2] = str2[2]
    /\ str1[3] = str2[3]
    /\ str1[4] = str2[4]

GuidTail == <<Byte(243), Byte(172), Byte(211), Byte(17), Byte(140), Byte(209),
              Byte(0), Byte(192), Byte(79), Byte(142), Byte(219), Byte(138)>>

w64GuidRIFF ==
    <<Byte(114), Byte(105), Byte(102), Byte(102), Byte(46), Byte(145), Byte(207), Byte(17),
      Byte(165), Byte(214), Byte(40), Byte(219), Byte(4), Byte(193), Byte(0), Byte(0)>>
w64GuidWAVE == <<Byte(119), Byte(97), Byte(118), Byte(101)>> \o GuidTail
w64Guidfmt  == <<Byte(102), Byte(109), Byte(116), Byte(32)>> \o GuidTail
w64Guiddata == <<Byte(100), Byte(97), Byte(116), Byte(97)>> \o GuidTail
\* a chunk GUID the parser does not know
w64GuidOther == <<Byte(108), Byte(105), Byte(115), Byte(116)>> \o GuidTail

\* memcmp(guid1, guid2, 16) == 0
CheckGuid(guid1, guid2) == \A i \in 1..16 : guid1[i] = guid2[i]

\* ------------------------------------------------------------------------
\* Layout of the structures the parsers overlay on the file
\* ------------------------------------------------------------------------
\* RiffWavPCMAudioProvider: sizeof(ChunkHeader), sizeof(RIFFChunk), sizeof(fmtChunk)
SizeofChunkHeader == 8
SizeofRIFFChunk == 12
SizeoffmtChunk == 16
\* Wave64AudioProvider: sizeof(RiffChunk), sizeof(FormatChunk), sizeof(DataChunk)
SizeofRiffChunk == 40
SizeofFormatChunk == 56
SizeofDataChunk == 24

\* ------------------------------------------------------------------------
\* Files
\* ------------------------------------------------------------------------
\* payload byte i (from 0) of the k-th chunk of a file
PayByte(k, i) == (((i + 1) * (i + 2)) \div 2 + k) % ByteRadix
Payload(k, n) == [i \in 1..n |-> PayByte(k, i - 1)]

\* format chunks: compression tag, channels, bits per sample
FmtKinds ==
    { [t |-> "fmt", tag |-> 1, ch |-> 2, bits |-> 16, size |-> 16, phys |-> 16],
      [t |-> "fmt", tag |-> 1, ch |-> 1, bits |-> 8, size |-> 16, phys |-> 16],
      [t |-> "fmt", tag |-> 3, ch |-> 2, bits |-> 32, size |-> 16, phys |-> 16],
      [t |-> "fmt", tag |-> 2, ch |-> 1, bits |-> 4, size |-> 16, phys |-> 16],
      [t |-> "fmt", tag |-> 1, ch |-> 0, bits |-> 16, size |-> 16, phys |-> 16],
      [t |-> "fmt", tag |-> 1, ch |-> 1, bits |-> 0, size |-> 16, phys |-> 16] }

\* data chunks: declared payload size and payload bytes present in the file
\* (an odd payload is followed by its pad byte; the last kind is a chunk
\* cut short by a truncated file)
DataKinds ==
    { [t |-> "data", tag |-> 0, ch |-> 0, bits |-> 0, size |-> 4, phys |-> 4],
      [t |-> "data", tag |-> 0, ch |-> 0, bits |-> 0, size |-> 3, phys |-> 4],
      [t |-> "data", tag |-> 0, ch |-> 0, bits |-> 0, size |-> 16, phys |-> 16],
      [t |-> "data", tag |-> 0, ch |-> 0, bits |-> 0, size |-> 16, phys |-> 8] }

\* chunks of a type the parsers skip: a small one, and one that declares a
\* size near the top of the 32-bit range though two bytes follow
OtherKinds ==
    { [t |-> "LIST", tag |-> 0, ch |-> 0, bits |-> 0, size |-> 2, phys |-> 2],
      [t |-> "LIST", tag |-> 0, ch |-> 0, bits |-> 0, size |-> U32M - 20, phys |-> 2] }

\* chunk sequences of a file; the format chunks of one file are alike
ChunkSeqs ==
    UNION { UNION { [1..n -> {f} \cup DataKinds \cup OtherKinds] : n \in 0..MaxChunks } :
            f \in FmtKinds }

RoundUp(x, a) == ((x + a - 1) \div a) * a

\* --- RIFF WAV ---
RiffFmtBody(c) ==
    Enc(c.tag, 2) \o Enc(c.ch, 2) \o Enc(800, 4) \o Enc(800 * c.ch * ((c.bits + 7) \div 8) % U32M, 4)
        \o Enc(c.ch * ((c.bits + 7) \div 8), 2) \o Enc(c.bits, 2)

RiffChunkBytes(c, k) ==
    CASE c.t = "fmt" -> Fourccfmt \o Enc(c.size, 4) \o RiffFmtBody(c)
      [] c.t = "data" -> Fourccdata \o Enc(c.size, 4) \o Payload(k, c.phys)
      [] OTHER -> FourccLIST \o Enc(c.size, 4) \o Payload(k, c.phys)

RECURSIVE RiffChunksBytes(_, _)
RiffChunksBytes(cs, k) ==
    IF k > Len(cs) THEN << >> ELSE RiffChunkBytes(cs[k], k) \o RiffChunksBytes(cs, k + 1)

RECURSIVE RiffDeclared(_, _)
\* bytes the chunks k.. claim to occupy: sub-header + declared size, word aligned
RiffDeclared(cs, k) ==
    IF k > Len(cs) THEN 0
    ELSE SizeofChunkHeader + RoundUp(cs[k].size, 2) + RiffDeclared(cs, k + 1)

\* values of the RIFF header's size field: the bytes that follow it in the
\* file, the bytes the chunks declare and, for the shortest files, "WAVE"
\* alone and zero
RiffSizeFields(cs) ==
    { 4 + Len(RiffChunksBytes(cs, 1)), 4 + RiffDeclared(cs, 1) }
        \cup (IF Len(cs) <= 1 THEN {4, 0} ELSE {})

RiffFile(cs, sz) == FourccRIFF \o Enc(sz, 4) \o FourccWAVE \o RiffChunksBytes(cs, 1)

\* --- Wave64 ---
\* payload bytes of a chunk present in a Wave64 file: padded to 8 bytes
\* unless the chunk is cut short
W64Phys(c) == IF c.phys >= c.size THEN RoundUp(c.size, 8) ELSE c.phys

\* WaveFormatEx (18 bytes) and the padding up to the next 8-byte boundary
W64FmtBody(c) ==
    Enc(c.tag, 2) \o Enc(c.ch, 2) \o Enc(800, 4) \o Enc(800 * c.ch * ((c.bits + 7) \div 8) % U32M, 4)
        \o Enc(c.ch * ((c.bits + 7) \div 8), 2) \o Enc(c.bits, 2) \o Enc(0, 2)
        \o [i \in 1..6 |-> 0]

\* the size field of a Wave64 chunk counts its 24-byte sub-header
W64ChunkSize(c) == SizeofDataChunk + (IF c.t = "fmt" THEN 18 ELSE c.size)

W64ChunkBytes(c, k) ==
    CASE c.t = "fmt" -> w64Guidfmt \o Enc(W64ChunkSize(c), 8) \o W64FmtBody(c)
      [] c.t = "data" -> w64Guiddata \o Enc(W64ChunkSize(c), 8) \o Payload(k, W64Phys(c))
      [] OTHER -> w64GuidOther \o Enc(W64ChunkSize(c), 8) \o Payload(k, W64Phys(c))

RECURSIVE W64ChunksBytes(_, _)
W64ChunksBytes(cs, k) ==
    IF k > Len(cs) THEN << >> ELSE W64ChunkBytes(cs[k], k) \o W64ChunksBytes(cs, k + 1)

RECURSIVE W64Declared(_, _)
W64Declared(cs, k) ==
    IF k > Len(cs) THEN 0
    ELSE RoundUp(W64ChunkSize(cs[k]), 8) + W64Declared(cs, k + 1)

\* values of the Wave64 header's size field: the length of the file, the
\* bytes the chunks declare and, for the files of two chunks, the header
\* alone and zero
W64SizeFields(cs) ==
    { SizeofRiffChunk + Len(W64ChunksBytes(cs, 1)), SizeofRiffChunk + W64Declared(cs, 1) }
        \cup (IF Len(cs) = 2 THEN {SizeofRiffChunk, 0} ELSE {})

W64File(cs, sz) == w64GuidRIFF \o Enc(sz, 8) \o w64GuidWAVE \o W64ChunksBytes(cs, 1)

\* --- files of neither container ---
\* n bytes that carry no magic
Noise(n) == [i \in 1..n |-> (i * i + 1) % ByteRadix]

\* a Wave64 file of the least size the parser accepts whose first chunk, of
\* a type the parser skips, declares the size zero
W64ZeroSizeChunkFile ==
    w64GuidRIFF \o Enc(SizeofRiffChunk + SizeofDataChunk + SizeofFormatChunk, 8)
        \o w64GuidWAVE \o w64GuidOther \o Enc(0, 8) \o Payload(1, SizeofFormatChunk)

RawFiles ==
    { Noise(5), Noise(12), Noise(130),
      FourccRIFF \o Enc(4, 4) \o <<Byte(65), Byte(86), Byte(73), Byte(32)>>,
      FourccRIFF \o Enc(4, 4),
      w64GuidRIFF \o Enc(130, 8) \o Noise(106),
      W64ZeroSizeChunkFile }

\* --- the files the model opens ---
Descs ==
    UNION { { [container |-> "riff", cs |-> c, sz |-> z, raw |-> << >>] :
                z \in RiffSizeFields(c) } : c \in ChunkSeqs }
    \cup
    UNION { { [container |-> "w64", cs |-> c, sz |-> z, raw |-> << >>] :
                z \in W64SizeFields(c) } : c \in ChunkSeqs }
    \cup
    { [container |-> "raw", cs |-> << >>, sz |-> 0, raw |-> f] : f \in RawFiles }

FileOf(d) ==
    CASE d.container = "riff" -> RiffFile(d.cs, d.sz)
      [] d.container = "w64" -> W64File(d.cs, d.sz)
      [] OTHER -> d.raw

\* ------------------------------------------------------------------------
\* State
\* ------------------------------------------------------------------------
VARIABLES
    desc,              \* how the file was put together (not seen by the program)
    file,              \* the bytes of the file
    size_t_width,      \* sizeof(size_t) of the build: 4 or 8
    pc,                \* position in CreatePCMAudioProvider and the constructors
    parser,            \* the constructor CreatePCMAudioProvider runs or ran last
    data_left,         \* constructor local
    filepos,           \* constructor local
    got_fmt_header,    \* constructor local
    num_samples,       \* AudioProvider::num_samples
    sample_rate,       \* AudioProvider::sample_rate
    channels,          \* AudioProvider::channels
    bytes_per_sample,  \* AudioProvider::bytes_per_sample
    index_points,      \* PCMAudioProvider::index_points
    mapping_start,     \* PCMAudioProvider::mapping_start
    region,            \* PCMAudioProvider::region: << >> (null) or <<the mapped region>>
    wrong_file_type,   \* CreatePCMAudioProvider local
    msg,               \* CreatePCMAudioProvider local, a list of the strings concatenated
    err,               \* the exception that left CreatePCMAudioProvider, or NoErr
    thrown,            \* the exceptions the constructors threw, in order
    fmt_tag,           \* the compression tag of every format chunk a constructor read
    req,               \* the last FillBuffer request
    buf,               \* the destination buffer of the last FillBuffer request
    fb_exc,            \* the exception that left the last FillBuffer, or "none"
    wild_reads,        \* reads through a pointer outside the mapped region so far
    file_size,         \* PCMAudioProvider::file_size, in units of offset_unit bytes
    offset_unit,       \* the bytes one unit of a file offset or length stands for
    os_fault,          \* the operating system refuses to map a view of the file
    map_call,          \* the EnsureRangeAccessible call MapCall made last
    map_ret,           \* what that call gave back
    threads,           \* per thread, its position in FillBuffer and its locals
    region_gen         \* the mapped_region objects created so far

vars == <<desc, file, size_t_width, pc, parser, data_left, filepos, got_fmt_header, num_samples,
          sample_rate, channels, bytes_per_sample, index_points, mapping_start, region,
          wrong_file_type, msg, err, thrown, fmt_tag, req, buf, fb_exc, wild_reads,
          file_size, offset_unit, os_fault, map_call, map_ret, threads, region_gen>>

fileVars == <<desc, file, size_t_width, file_size, offset_unit>>
raceVars == <<threads, region_gen>>
mapperVars == <<os_fault, map_call, map_ret, raceVars>>
readerVars == <<req, buf, fb_exc>>

\* value of a member the constructors have not assigned
Indeterminate == 0 - 1
\* the threads that call FillBuffer on one provider
Threads == {1, 2}
\* a thread outside FillBuffer
IdleThread ==
    [at |-> "idle", start |-> 0, length |-> 0, map_length |-> 0, ptr_src |-> 0,
     ptr_gen |-> 0, ptr_valid |-> FALSE, out |-> "none"]
\* a destination byte FillBuffer has not written
Unwritten == 0 - 1

NoErr == [exc |-> "none", msg |-> << >>]
NoReq == [start |-> 0, count |-> 0]
NoCall == [start |-> 0, length |-> 0]
NoRet == [exc |-> "none", src |-> 0, valid |-> TRUE, mapped |-> FALSE, called |-> FALSE]

\* ------------------------------------------------------------------------
\* Windowed mapper
\* ------------------------------------------------------------------------
\* start & ~0xFFFFFULL aligns to this many bytes
MapAlign == 1048576
\* std::max<size_t>(0x1000000U, ...)
MinMapLength == 16777216

\* MapAlign and MinMapLength counted in units of offset_unit bytes
MapAlignUnits == MapAlign \div offset_unit
MinMapLengthUnits == MinMapLength \div offset_unit

\* conversion of an int64_t count of units to a 32-bit size_t.  Counted in
\* bytes, every non-negative integer TLC can hold is below 2^32 and is its
\* own image and a negative one is taken modulo 2^32; counted in larger
\* units, 2^32 bytes are (65536 \div offset_unit) * 65536 units.
ToSizeT32(x) ==
    IF offset_unit = 1
    THEN IF x >= 0 THEN x ELSE (x + 2147483647) + 2147483647 + 2
    ELSE x % ((65536 \div offset_unit) * 65536)

\* boost::interprocess::mapped_region(*file, read_only, offset, length) throws
\* when the operating system refuses the view or the offset is not an
\* offset of the file
MappingFails(offset, length) == os_fault \/ offset < 0 \/ offset > file_size

\* the test with >=: a range that ends with the file is refused too
AtOrBeyondEndOfFile(start, length) == start + length >= file_size

\* the test on start alone: a range that begins in the file passes
StartBeyondEndOfFile(start, length) == start > file_size

\* start + length > file_size: the range does not lie in the file
BeyondEndOfFile(start, length) == start + length > file_size

\* region && start >= mapping_start
\*        && start + length <= mapping_start + region->get_size()
WindowCovers(start, length, ms, rg) ==
    rg # << >> /\ start >= ms /\ start + length <= ms + rg[1].size

\* the mapping_start of a new window: start & ~0xFFFFF, or 0
NewMappingStart(start) ==
    IF size_t_width = 4 THEN AlignDown(start, MapAlignUnits) ELSE 0

\* the length of a new window at ms2: 16 MB or the length from ms2 rounded
\* up to the next MB, cut to the rest of the file; or the whole file
NewMappingLength(start, length, ms2) ==
    IF size_t_width = 4
    THEN Min(Max(MinMapLengthUnits,
                 ToSizeT32(AlignDown(length + ToSizeT32(start - ms2) + (MapAlignUnits - 1),
                                     MapAlignUnits))),
             ToSizeT32(file_size - ms2))
    ELSE file_size

\* EnsureRangeAccessible(start, length) on the mapper state (ms, rg).
\* exc: the exception thrown, or "none"; mapping_start, region: the state it
\* leaves; src: the file offset the returned pointer refers to; valid: the
\* length bytes behind the pointer lie in the mapped region; mapped: a
\* mapped_region was created.
EnsureRangeAccessible(start, length, ms, rg) ==
    IF BeyondEndOfFile(start, length)
    THEN [exc |-> "AudioDecodeError", text |-> "Attempted to map beyond end of file",
          mapping_start |-> ms, region |-> rg, src |-> 0, valid |-> FALSE, mapped |-> FALSE]
    ELSE IF WindowCovers(start, length, ms, rg)
    THEN [exc |-> "none", text |-> "",
          mapping_start |-> ms, region |-> rg,
          src |-> rg[1].offset + start - ms,
          valid |-> /\ rg[1].offset + start - ms >= rg[1].offset
                    /\ rg[1].offset + start - ms + length <= rg[1].offset + rg[1].size,
          mapped |-> FALSE]
    ELSE LET ms2 == NewMappingStart(start)
             len2 == NewMappingLength(start, length, ms2)
         IN  IF MappingFails(ms2, len2)
             THEN [exc |-> "AudioDecodeError", text |-> "Failed mapping a view of the file",
                   mapping_start |-> ms2, region |-> rg, src |-> 0, valid |-> FALSE,
                   mapped |-> FALSE]
             ELSE [exc |-> "none", text |-> "",
                   mapping_start |-> ms2, region |-> <<[offset |-> ms2, size |-> len2]>>,
                   src |-> start,
                   valid |-> start >= ms2 /\ start + length <= ms2 + len2,
                   mapped |-> TRUE]

\* conversion of a uint32_t to int
ToInt32(x) == IF 2 * x >= U32M THEN x - U32M ELSE x

\* C++ division, truncating toward zero (b > 0)
CDivS(a, b) == IF a >= 0 THEN a \div b ELSE 0 - ((0 - a) \div b)

\* a / b in C++.  Division by zero is undefined behaviour: the builds trap
\* (x86) or yield 0 (ARM).
DivOutcomes(a, b) ==
    IF b = 0 THEN { [trap |-> TRUE, q |-> 0], [trap |-> FALSE, q |-> 0] }
    ELSE { [trap |-> FALSE, q |-> CDivS(a, b)] }

\* ------------------------------------------------------------------------
\* Steps shared by the two parsers
\* ------------------------------------------------------------------------
\* (bits + 7) / 8: round up to the nearest whole byte
BytesPerSample(bits) == (bits + 7) \div 8

\* the IndexPoint a data chunk appends
NewIndexPoint(total, frames, start_byte) ==
    [start_sample |-> total, num_samples |-> frames, start_byte |-> start_byte]

\* a data chunk taken whether or not a format chunk was seen
DataChunkAlways(got) == TRUE

\* if (!got_fmt_header) throw ...: a data chunk is taken only after a format chunk
DataChunkAllowed(got) == got

\* a format chunk taken however many were seen
FmtChunkAlways(got) == TRUE

\* if (got_fmt_header) throw ...: a format chunk is taken only once
FmtChunkAllowed(got) == ~got

\* ------------------------------------------------------------------------
\* Provider factory: what a constructor's exception does
\* ------------------------------------------------------------------------
\* a catch clause that leaves wrong_file_type as it was
WrongFileTypeKept(wft, exc) == wft

\* wrong_file_type after a catch clause of CreatePCMAudioProvider
WrongFileTypeAfter(wft, exc) == IF exc = "AudioProviderOpenError" THEN FALSE ELSE wft

\* the exception CreatePCMAudioProvider throws when both constructors failed
FactoryError(wft) == IF wft THEN "AudioDataNotFoundError" ELSE "AudioProviderOpenError"

Caught == {"AudioDataNotFoundError", "AudioProviderOpenError"}
\* the provider object under construction is destroyed, the next one is new
ResetProvider ==
    /\ data_left' = 0
    /\ filepos' = 0
    /\ got_fmt_header' = FALSE
    /\ num_samples' = Indeterminate
    /\ sample_rate' = Indeterminate
    /\ channels' = Indeterminate
    /\ bytes_per_sample' = Indeterminate
    /\ index_points' = << >>
    /\ mapping_start' = 0
    /\ region' = << >>

\* CreatePCMAudioProvider: an exception leaves RiffWavPCMAudioProvider's
\* constructor.  The two catch clauses take AudioDataNotFoundError and
\* AudioProviderOpenError; any other exception leaves the function.
ThrowFromRiff(exc, text) ==
    /\ thrown' = Append(thrown, [parser |-> "riff", exc |-> exc, text |-> text])
    /\ ResetProvider
    /\ IF exc \in Caught
       THEN /\ pc' = "w64_open"
            /\ wrong_file_type' = WrongFileTypeAfter(wrong_file_type, exc)
            /\ msg' = <<"RIFF PCM WAV audio provider: ", text>>
            /\ UNCHANGED err
       ELSE /\ pc' = "raised"
            /\ err' = [exc |-> exc, msg |-> <<text>>]
            /\ UNCHANGED <<wrong_file_type, msg>>
    /\ parser' = IF pc' = "w64_open" THEN "w64" ELSE parser
    /\ UNCHANGED <<fileVars, mapperVars, readerVars>>

\* CreatePCMAudioProvider: an exception leaves Wave64AudioProvider's
\* constructor; after a caught one the function throws its own.
ThrowFromW64(exc, text) ==
    /\ thrown' = Append(thrown, [parser |-> "w64", exc |-> exc, text |-> text])
    /\ ResetProvider
    /\ pc' = "raised"
    /\ IF exc \in Caught
       THEN /\ msg' = msg \o <<"\nWave64 audio provider: ", text>>
            /\ wrong_file_type' = WrongFileTypeAfter(wrong_file_type, exc)
            /\ err' = [exc |-> FactoryError(wrong_file_type'), msg |-> msg']
       ELSE /\ err' = [exc |-> exc, msg |-> <<text>>]
            /\ UNCHANGED <<wrong_file_type, msg>>
    /\ UNCHANGED <<fileVars, mapperVars, readerVars, parser>>

\* throw from the running constructor
Throw(exc, text) ==
    /\ IF parser = "riff" THEN ThrowFromRiff(exc, text) ELSE ThrowFromW64(exc, text)
    /\ UNCHANGED fmt_tag

\* throw from the running constructor on a format chunk of compression tag
ThrowOnTag(exc, text, tag) ==
    /\ IF parser = "riff" THEN ThrowFromRiff(exc, text) ELSE ThrowFromW64(exc, text)
    /\ fmt_tag' = Append(fmt_tag, [parser |-> parser, tag |-> tag])

\* the process dies (a trap, a fault)
Crash ==
    /\ pc' = "crashed"
    /\ UNCHANGED <<fileVars, mapperVars, parser, data_left, filepos, got_fmt_header, num_samples,
                   sample_rate, channels, bytes_per_sample, index_points, mapping_start,
                   region, wrong_file_type, msg, err, thrown, fmt_tag, readerVars>>

\* ------------------------------------------------------------------------
\* RIFF WAV parser
\* ------------------------------------------------------------------------
\* IEEE float let through as well as PCM
RiffCompressionPCMOrFloat(compression) == compression = 1 \/ compression = 3

\* fmt.compression != 1 is rejected
RiffCompressionOK(compression) == compression = 1

\* the chunk size plus one, the low bit not cleared
RiffUnaligned(size) == Wrap(size + 1, U32M)

\* (ch.size + 1) & ~1: the chunk size, word aligned
RiffPadded(size) == AlignDown(Wrap(size + 1, U32M), 2)

\* RiffWavPCMAudioProvider::RiffWavPCMAudioProvider, up to the chunk loop
RiffHeader ==
    /\ pc = "riff_open"
    /\ LET r == EnsureRangeAccessible(0, SizeofRIFFChunk, mapping_start, region) IN
       IF r.exc # "none" THEN Throw(r.exc, r.text)
       ELSE IF ~CheckFourcc(Bytes(file, r.src, 4), FourccRIFF)
       THEN Throw("AudioDataNotFoundError", "File is not a RIFF file")
       ELSE IF ~CheckFourcc(Bytes(file, r.src + 8, 4), FourccWAVE)
       THEN Throw("AudioDataNotFoundError", "File is not a RIFF WAV file")
       ELSE /\ data_left' = Wrap(LE(file, r.src + 4, 4) - 4, U32M)
            /\ filepos' = SizeofRIFFChunk
            /\ got_fmt_header' = FALSE
            /\ num_samples' = 0
            /\ mapping_start' = r.mapping_start
            /\ region' = r.region
            /\ pc' = "riff_walk"
            /\ UNCHANGED <<fileVars, mapperVars, parser, sample_rate, channels, bytes_per_sample,
                           index_points, wrong_file_type, msg, err, thrown, fmt_tag,
                           readerVars>>
    /\ UNCHANGED wild_reads

\* one iteration of the chunk loop of RiffWavPCMAudioProvider's constructor
RiffChunk ==
    /\ pc = "riff_walk"
    /\ data_left # 0
    /\ UNCHANGED wild_reads
    /\ LET r1 == EnsureRangeAccessible(filepos, SizeofChunkHeader, mapping_start, region) IN
       IF r1.exc # "none" THEN Throw(r1.exc, r1.text)
       ELSE
       LET ch_type == Bytes(file, r1.src, 4)
           ch_size == LE(file, r1.src + 4, 4)
           dl1 == Wrap(data_left - SizeofChunkHeader, U32M)
           fp1 == Wrap(filepos + SizeofChunkHeader, U32M)
           adv == RiffPadded(ch_size)
           dl2 == Wrap(dl1 - adv, U32M)
           fp2 == Wrap(fp1 + adv, U32M)
       IN
       IF CheckFourcc(ch_type, Fourccfmt) THEN
           IF ~FmtChunkAllowed(got_fmt_header)
           THEN Throw("AudioProviderOpenError", "Invalid file, multiple 'fmt ' chunks")
           ELSE
           LET r2 == EnsureRangeAccessible(fp1, SizeoffmtChunk, r1.mapping_start, r1.region) IN
           IF r2.exc # "none" THEN Throw(r2.exc, r2.text)
           ELSE
           LET compression == LE(file, r2.src, 2) IN
           IF ~RiffCompressionOK(compression)
           THEN ThrowOnTag("AudioProviderOpenError", "Can't use file, not PCM encoding",
                           compression)
           ELSE /\ got_fmt_header' = TRUE
                /\ sample_rate' = ToInt32(LE(file, r2.src + 4, 4))
                /\ channels' = LE(file, r2.src + 2, 2)
                /\ bytes_per_sample' = BytesPerSample(LE(file, r2.src + 14, 2))
                /\ fmt_tag' = Append(fmt_tag, [parser |-> "riff", tag |-> compression])
                /\ data_left' = dl2
                /\ filepos' = fp2
                /\ mapping_start' = r2.mapping_start
                /\ region' = r2.region
                /\ UNCHANGED <<fileVars, mapperVars, pc, parser, num_samples, index_points,
                               wrong_file_type, msg, err, thrown, readerVars>>
       ELSE IF CheckFourcc(ch_type, Fourccdata) THEN
           IF ~DataChunkAllowed(got_fmt_header)
           THEN Throw("AudioProviderOpenError",
                      "Found 'data' chunk before 'fmt ' chunk, file is invalid.")
           ELSE
           \E samples \in DivOutcomes(ch_size, bytes_per_sample) :
             IF samples.trap THEN Crash
             ELSE
             \E frames \in DivOutcomes(samples.q, channels) :
               IF frames.trap THEN Crash
               ELSE /\ Len(index_points) < MaxIndexPoints
                    /\ index_points' = Append(index_points,
                            NewIndexPoint(num_samples, frames.q, fp1))
                    /\ num_samples' = num_samples + frames.q
                    /\ data_left' = dl2
                    /\ filepos' = fp2
                    /\ mapping_start' = r1.mapping_start
                    /\ region' = r1.region
                    /\ UNCHANGED <<fileVars, mapperVars, pc, parser, got_fmt_header, sample_rate,
                                   channels, bytes_per_sample, wrong_file_type, msg, err,
                                   thrown, fmt_tag, readerVars>>
       ELSE /\ data_left' = dl2
            /\ filepos' = fp2
            /\ mapping_start' = r1.mapping_start
            /\ region' = r1.region
            /\ UNCHANGED <<fileVars, mapperVars, pc, parser, got_fmt_header, num_samples, sample_rate,
                           channels, bytes_per_sample, index_points, wrong_file_type, msg,
                           err, thrown, fmt_tag, readerVars>>

\* the chunk loop ends, the constructor returns, CreatePCMAudioProvider
\* returns the provider
RiffDone ==
    /\ pc = "riff_walk"
    /\ data_left = 0
    /\ pc' = "ready"
    /\ UNCHANGED wild_reads
    /\ UNCHANGED <<fileVars, mapperVars, parser, data_left, filepos, got_fmt_header, num_samples,
                   sample_rate, channels, bytes_per_sample, index_points, mapping_start,
                   region, wrong_file_type, msg, err, thrown, fmt_tag, readerVars>>

\* ------------------------------------------------------------------------
\* Wave64 parser
\* ------------------------------------------------------------------------
\* what a read through a pointer outside the mapped region can yield
GarbageGuids == {w64Guidfmt, w64Guiddata, w64GuidOther}
GarbageSizes == {0, SizeofDataChunk, U64M - 8}
GarbageFmts ==
    { [tag |-> 1, ch |-> 1, rate |-> 800, bits |-> 8],
      [tag |-> 3, ch |-> 2, rate |-> 800, bits |-> 32],
      [tag |-> 1, ch |-> 0, rate |-> 0, bits |-> 0] }

\* int64_t addition; signed overflow wraps in the builds
AddInt64(a, b) == ToInt64(Wrap(a + b, U64M))

\* the message of the exception a wFormatTag is rejected with, "" for PCM
W64FormatTagError(tag) ==
    IF tag = 3
    THEN "File is IEEE 32 bit float format which isn't supported. Bug the developers if this matters."
    ELSE IF tag # 1 THEN "Can't use file, not PCM encoding"
    ELSE ""

\* (chunk_size + 7) & ~7: the chunk size, 64 bit aligned
W64Padded(size) == AlignDown(Wrap(size + 7, U64M), 8)

\* Wave64AudioProvider::Wave64AudioProvider, up to the chunk loop
W64Header ==
    /\ pc = "w64_open"
    /\ UNCHANGED wild_reads
    /\ IF file_size < SizeofRiffChunk + SizeofFormatChunk + SizeofDataChunk
       THEN Throw("AudioDataNotFoundError", "File is too small to be a Wave64 file")
       ELSE
       LET r == EnsureRangeAccessible(0, SizeofRiffChunk, mapping_start, region) IN
       IF r.exc # "none" THEN Throw(r.exc, r.text)
       ELSE IF ~CheckGuid(Bytes(file, r.src, 16), w64GuidRIFF)
       THEN Throw("AudioDataNotFoundError", "File is not a Wave64 RIFF file")
       ELSE IF ~CheckGuid(Bytes(file, r.src + 24, 16), w64GuidWAVE)
       THEN Throw("AudioDataNotFoundError", "File is not a Wave64 WAVE file")
       ELSE /\ data_left' = Wrap(LE(file, r.src + 16, 8) - SizeofRiffChunk, U64M)
            /\ filepos' = SizeofRiffChunk
            /\ got_fmt_header' = FALSE
            /\ num_samples' = 0
            /\ mapping_start' = r.mapping_start
            /\ region' = r.region
            /\ pc' = "w64_walk"
            /\ UNCHANGED <<fileVars, mapperVars, parser, sample_rate, channels, bytes_per_sample,
                           index_points, wrong_file_type, msg, err, thrown, fmt_tag,
                           readerVars>>

\* the rest of an iteration of Wave64AudioProvider's chunk loop, once
\* chunk_guid and chunk_size are read; r is the mapper state
W64Process(chunk_guid, chunk_size, r) ==
    LET adv == W64Padded(chunk_size)
        dl2 == Wrap(data_left - adv, U64M)
        fp2 == Wrap(filepos + adv, U64M)
    IN
    IF CheckGuid(chunk_guid, w64Guidfmt) THEN
        IF ~FmtChunkAllowed(got_fmt_header)
        THEN Throw("AudioProviderOpenError", "Bad file, found more than one 'fmt' chunk")
        ELSE
        LET r3 == EnsureRangeAccessible(ToInt64(filepos), SizeofFormatChunk,
                                        r.mapping_start, r.region) IN
        IF r3.exc # "none" THEN Throw(r3.exc, r3.text)
        ELSE
        \/ ~r3.valid /\ Crash
        \/ \E fmt \in IF r3.valid
                      THEN { [tag |-> LE(file, r3.src + 24, 2), ch |-> LE(file, r3.src + 26, 2),
                              rate |-> LE(file, r3.src + 28, 4),
                              bits |-> LE(file, r3.src + 38, 2)] }
                      ELSE GarbageFmts :
             IF W64FormatTagError(fmt.tag) # ""
             THEN ThrowOnTag("AudioProviderOpenError", W64FormatTagError(fmt.tag), fmt.tag)
             ELSE /\ got_fmt_header' = TRUE
                  /\ sample_rate' = ToInt32(fmt.rate)
                  /\ channels' = fmt.ch
                  /\ bytes_per_sample' = BytesPerSample(fmt.bits)
                  /\ fmt_tag' = Append(fmt_tag, [parser |-> "w64", tag |-> fmt.tag])
                  /\ data_left' = dl2
                  /\ filepos' = fp2
                  /\ mapping_start' = r3.mapping_start
                  /\ region' = r3.region
                  /\ UNCHANGED <<fileVars, mapperVars, pc, parser, num_samples, index_points,
                                 wrong_file_type, msg, err, thrown, readerVars>>
    ELSE IF CheckGuid(chunk_guid, w64Guiddata) THEN
        IF ~DataChunkAllowed(got_fmt_header)
        THEN Throw("AudioProviderOpenError",
                   "Found 'data' chunk before 'fmt ' chunk, file is invalid.")
        ELSE
        \E samples \in DivOutcomes(chunk_size, bytes_per_sample) :
          IF samples.trap THEN Crash
          ELSE
          \E frames \in DivOutcomes(ToInt64(samples.q), channels) :
            IF frames.trap THEN Crash
            ELSE /\ Len(index_points) < MaxIndexPoints
                 /\ index_points' = Append(index_points,
                         NewIndexPoint(num_samples, frames.q, ToInt64(filepos)))
                 /\ num_samples' = AddInt64(num_samples, frames.q)
                 /\ data_left' = dl2
                 /\ filepos' = fp2
                 /\ mapping_start' = r.mapping_start
                 /\ region' = r.region
                 /\ UNCHANGED <<fileVars, mapperVars, pc, parser, got_fmt_header, sample_rate,
                                channels, bytes_per_sample, wrong_file_type, msg, err,
                                thrown, fmt_tag, readerVars>>
    ELSE /\ data_left' = dl2
         /\ filepos' = fp2
         /\ mapping_start' = r.mapping_start
         /\ region' = r.region
         /\ UNCHANGED <<fileVars, mapperVars, pc, parser, got_fmt_header, num_samples, sample_rate,
                        channels, bytes_per_sample, index_points, wrong_file_type, msg,
                        err, thrown, fmt_tag, readerVars>>

\* one iteration of the chunk loop of Wave64AudioProvider's constructor
W64Chunk ==
    /\ pc = "w64_walk"
    /\ data_left # 0
    /\ LET r1 == EnsureRangeAccessible(ToInt64(filepos), 16, mapping_start, region) IN
       IF r1.exc # "none" THEN Throw(r1.exc, r1.text) /\ UNCHANGED wild_reads
       ELSE
       LET r2 == EnsureRangeAccessible(ToInt64(Wrap(filepos + 16, U64M)), 8,
                                       r1.mapping_start, r1.region) IN
       IF r2.exc # "none" THEN Throw(r2.exc, r2.text) /\ UNCHANGED wild_reads
       ELSE
       IF r1.valid /\ r2.valid
       THEN /\ W64Process(Bytes(file, r1.src, 16), LE(file, r2.src, 8), r2)
            /\ UNCHANGED wild_reads
       ELSE \* chunk_guid or chunk_size is read outside the mapped region
            \/ Crash /\ UNCHANGED wild_reads
            \/ /\ wild_reads < MaxWildReads
               /\ wild_reads' = wild_reads + 1
               /\ \E chunk_guid \in IF r1.valid THEN {Bytes(file, r1.src, 16)}
                                     ELSE GarbageGuids :
                    \E chunk_size \in IF r2.valid THEN {LE(file, r2.src, 8)}
                                         ELSE GarbageSizes :
                      W64Process(chunk_guid, chunk_size, r2)

W64Done ==
    /\ pc = "w64_walk"
    /\ data_left = 0
    /\ pc' = "ready"
    /\ UNCHANGED wild_reads
    /\ UNCHANGED <<fileVars, mapperVars, parser, data_left, filepos, got_fmt_header, num_samples,
                   sample_rate, channels, bytes_per_sample, index_points, mapping_start,
                   region, wrong_file_type, msg, err, thrown, fmt_tag, readerVars>>

\* ------------------------------------------------------------------------
\* Sample reader
\* ------------------------------------------------------------------------
\* ip.start_sample <= start && ip.start_sample+ip.num_samples > start
ContainsSample(ip, start) ==
    ip.start_sample <= start /\ ip.start_sample + ip.num_samples > start

\* one sample more than the block holds from start on
SamplesCanDoOneMore(ip, start, count) == Min(ip.num_samples - start + ip.start_sample + 1, count)

\* the whole request taken from the block ip, whatever the block holds
SamplesUnclamped(ip, start, count) == count

\* how many samples the call can take from the block ip
SamplesCanDo(ip, start, count) == Min(ip.num_samples - start + ip.start_sample, count)

\* the offset computed per sample, the channel count left out
SampleOffsetMono(ip, start) ==
    ip.start_byte + (start - ip.start_sample) * bytes_per_sample

\* the file offset of frame start of the block ip
SampleOffset(ip, start) ==
    ip.start_byte + (start - ip.start_sample) * bytes_per_sample * channels

RECURSIVE FillBufferLoop(_, _, _, _, _, _)
\* PCMAudioProvider::FillBuffer from the loop test on: index, start and
\* count are the locals, out the bytes copied to buf so far, (ms, rg) the
\* mapper state.  wild: a memcpy from outside the mapped region.
FillBufferLoop(index, start, count, out, ms, rg) ==
    IF ~(count > 0 /\ index < Len(index_points))
    THEN [exc |-> "none", out |-> out, mapping_start |-> ms, region |-> rg, wild |-> FALSE]
    ELSE
    LET ip == index_points[index + 1] IN
    IF ContainsSample(ip, start)
    THEN LET samples_can_do == SamplesCanDo(ip, start, count)
             r == EnsureRangeAccessible(SampleOffset(ip, start),
                      samples_can_do * bytes_per_sample * channels, ms, rg)
         IN  IF r.exc # "none"
             THEN [exc |-> r.exc, out |-> out, mapping_start |-> r.mapping_start,
                   region |-> r.region, wild |-> FALSE]
             ELSE IF ~r.valid
             THEN [exc |-> "none", out |-> out, mapping_start |-> r.mapping_start,
                   region |-> r.region, wild |-> TRUE]
             ELSE FillBufferLoop(index + 1, start + samples_can_do, count - samples_can_do,
                      out \o Bytes(file, r.src, samples_can_do * bytes_per_sample * channels),
                      r.mapping_start, r.region)
    ELSE FillBufferLoop(index + 1, start, count, out, ms, rg)

\* the destination buffer the caller passes for count frames
BufferOf(count) ==
    IF count > 0 /\ bytes_per_sample > 0 /\ channels > 0
    THEN [i \in 1..(count * bytes_per_sample * channels) |-> Unwritten]
    ELSE << >>

\* bytes written at the front of a buffer
Written(out, b) == [i \in 1..Max(Len(b), Len(out)) |-> IF i <= Len(out) THEN out[i] ELSE b[i]]

\* the requests the model makes: the first frames, the frames around the
\* end of every block, and reads up to the end of the audio
ReqStarts ==
    ((0 - 1)..MaxReq)
        \cup { ip.start_sample + ip.num_samples - d :
                 <<ip, d>> \in { index_points[i] : i \in 1..Len(index_points) } \X (0..2) }
ReqCounts(start) ==
    (0..(MaxReq + 1)) \cup (IF num_samples > start THEN {num_samples - start} ELSE {})

\* a FillBuffer that counts the frames it was asked for off the provider's
\* num_samples
FillBufferCountingDown(start, count) ==
    /\ pc = "ready"
    /\ UNCHANGED wild_reads
    /\ LET f == FillBufferLoop(0, start, count, << >>, mapping_start, region) IN
       IF f.wild THEN Crash
       ELSE /\ pc' = "returned"
            /\ req' = [start |-> start, count |-> count]
            /\ buf' = Written(f.out, BufferOf(count))
            /\ fb_exc' = f.exc
            /\ mapping_start' = f.mapping_start
            /\ region' = f.region
            /\ num_samples' = num_samples - count
            /\ UNCHANGED <<fileVars, mapperVars, parser, data_left, filepos, got_fmt_header,
                           sample_rate, channels, bytes_per_sample,
                           index_points, wrong_file_type, msg, err, thrown, fmt_tag>>

\* a call of PCMAudioProvider::FillBuffer(buf, start, count)
FillBuffer(start, count) ==
    /\ pc = "ready"
    /\ UNCHANGED wild_reads
    /\ LET f == FillBufferLoop(0, start, count, << >>, mapping_start, region) IN
       IF f.wild THEN Crash
       ELSE /\ pc' = "returned"
            /\ req' = [start |-> start, count |-> count]
            /\ buf' = Written(f.out, BufferOf(count))
            /\ fb_exc' = f.exc
            /\ mapping_start' = f.mapping_start
            /\ region' = f.region
            /\ UNCHANGED <<fileVars, mapperVars, parser, data_left, filepos, got_fmt_header,
                           num_samples, sample_rate, channels, bytes_per_sample,
                           index_points, wrong_file_type, msg, err, thrown, fmt_tag>>

\* the caller of FillBuffer has used the buffer (or handled the exception)
\* and is free to call again
CallerContinues ==
    /\ pc = "returned"
    /\ pc' = "ready"
    /\ req' = NoReq
    /\ buf' = << >>
    /\ fb_exc' = "none"
    /\ UNCHANGED <<fileVars, mapperVars, parser, data_left, filepos, got_fmt_header, num_samples,
                   sample_rate, channels, bytes_per_sample, index_points, mapping_start,
                   region, wrong_file_type, msg, err, thrown, fmt_tag, wild_reads>>

\* ------------------------------------------------------------------------
\* Specification
\* ------------------------------------------------------------------------
Init ==
    /\ desc \in Descs
    /\ file = FileOf(desc)
    /\ file_size = Len(file)
    /\ offset_unit = 1
    /\ size_t_width \in {4, 8}
    /\ pc = "riff_open"
    /\ parser = "riff"
    /\ data_left = 0
    /\ filepos = 0
    /\ got_fmt_header = FALSE
    /\ num_samples = Indeterminate
    /\ sample_rate = Indeterminate
    /\ channels = Indeterminate
    /\ bytes_per_sample = Indeterminate
    /\ index_points = << >>
    /\ mapping_start = 0
    /\ region = << >>
    /\ wrong_file_type = TRUE
    /\ msg = << >>
    /\ err = NoErr
    /\ thrown = << >>
    /\ fmt_tag = << >>
    /\ req = NoReq
    /\ buf = << >>
    /\ fb_exc = "none"
    /\ wild_reads = 0
    /\ os_fault = FALSE
    /\ map_call = NoCall
    /\ map_ret = NoRet
    /\ threads = [t \in Threads |-> IdleThread]
    /\ region_gen = 0

Next ==
    \/ RiffHeader
    \/ RiffChunk
    \/ RiffDone
    \/ W64Header
    \/ W64Chunk
    \/ W64Done
    \/ \E start \in ReqStarts : \E count \in ReqCounts(start) : FillBuffer(start, count)
    \/ CallerContinues

Spec == Init /\ [][Next]_vars

\* ------------------------------------------------------------------------
\* The windowed mapper on large files
\* ------------------------------------------------------------------------
\* A PCMAudioProvider over a file of megabytes to gigabytes, of which only
\* the length is represented.  Offsets and lengths are counted in units of
\* 256 bytes, on which the arithmetic of EnsureRangeAccessible is exact, so
\* that files beyond 2^32 bytes fit the integers of the checker.  The
\* operating system may refuse a view at any time.

\* the file lengths, 3 MiB + 256, 40 MiB + 512 and 4 GiB + 2 MiB + 256 bytes
MapFileSizes ==
    { 3 * MapAlignUnits + 1, 40 * MapAlignUnits + 2, 4098 * MapAlignUnits + 1 }

\* the offsets and the lengths FillBuffer asks EnsureRangeAccessible for
MapStarts ==
    { 0, 1, MapAlignUnits - 1, 2 * MapAlignUnits + 5, 17 * MapAlignUnits,
      36 * MapAlignUnits + 3, 4095 * MapAlignUnits + 9, 4097 * MapAlignUnits }

MapLengths == { 1, 2, MapAlignUnits, 16 * MapAlignUnits + 1 }

\* one call EnsureRangeAccessible(start, length) on the provider
MapCall(start, length) ==
    /\ pc = "mapper"
    /\ LET r == EnsureRangeAccessible(start, length, mapping_start, region)
       IN  /\ mapping_start' = r.mapping_start
           /\ region' = r.region
           /\ map_call' = [start |-> start, length |-> length]
           /\ map_ret' = [exc |-> r.exc, src |-> r.src, valid |-> r.valid,
                          mapped |-> r.mapped, called |-> TRUE]
    /\ UNCHANGED <<fileVars, readerVars, pc, parser, data_left, filepos, got_fmt_header,
                   num_samples, sample_rate, channels, bytes_per_sample, index_points,
                   wrong_file_type, msg, err, thrown, fmt_tag, wild_reads, os_fault, raceVars>>

\* the operating system starts or stops refusing views of the file
OSFault ==
    /\ pc = "mapper"
    /\ os_fault' = ~os_fault
    /\ UNCHANGED <<fileVars, readerVars, pc, parser, data_left, filepos, got_fmt_header,
                   num_samples, sample_rate, channels, bytes_per_sample, index_points,
                   mapping_start, region, wrong_file_type, msg, err, thrown, fmt_tag,
                   wild_reads, map_call, map_ret, raceVars>>

\* the provider is constructed over a file of one of the lengths sizes: the
\* constructor's first read, of the file header at offset 0, has mapped the
\* first window
InitLarge(at, sizes) ==
    /\ desc = [container |-> "large", sz |-> 0, cs |-> << >>, raw |-> << >>]
    /\ file = << >>
    /\ offset_unit = 256
    /\ file_size \in sizes
    /\ size_t_width \in {4, 8}
    /\ os_fault = FALSE
    /\ pc = at
    /\ parser = "riff"
    /\ data_left = 0
    /\ filepos = 0
    /\ got_fmt_header = FALSE
    /\ num_samples = Indeterminate
    /\ sample_rate = Indeterminate
    /\ channels = Indeterminate
    /\ bytes_per_sample = Indeterminate
    /\ index_points = << >>
    /\ mapping_start = 0
    /\ region = EnsureRangeAccessible(0, 1, 0, << >>).region
    /\ wrong_file_type = TRUE
    /\ msg = << >>
    /\ err = NoErr
    /\ thrown = << >>
    /\ fmt_tag = << >>
    /\ req = NoReq
    /\ buf = << >>
    /\ fb_exc = "none"
    /\ wild_reads = 0
    /\ map_call = NoCall
    /\ map_ret = NoRet
    /\ threads = [t \in Threads |-> IdleThread]
    /\ region_gen = 0

InitMap == InitLarge("mapper", MapFileSizes)

NextMap ==
    \/ \E start \in MapStarts, length \in MapLengths : MapCall(start, length)
    \/ OSFault

SpecMap == InitMap /\ [][NextMap]_vars

\* ------------------------------------------------------------------------
\* Two threads in FillBuffer on one provider
\* ------------------------------------------------------------------------
\* FillBuffer and EnsureRangeAccessible take no lock; the statements of the
\* two threads interleave.  A thread goes through EnsureRangeAccessible in
\* four steps (the tests, the assignment of mapping_start and length, the
\* creation of the region, the return of the pointer) and then copies.

\* mapped_region objects created after construction, at most
MaxRemaps == 3

RaceFileSizes == { 40 * MapAlignUnits + 2 }
RaceStarts == { 1, 17 * MapAlignUnits, 36 * MapAlignUnits + 3 }
RaceLengths == { 1, 2 }

\* what no step of a thread in FillBuffer changes
RaceFrame ==
    UNCHANGED <<fileVars, readerVars, pc, parser, data_left, filepos, got_fmt_header,
                num_samples, sample_rate, channels, bytes_per_sample, index_points,
                wrong_file_type, msg, err, thrown, fmt_tag, wild_reads, os_fault,
                map_call, map_ret>>

\* lines 70-75: the end-of-file test and the test of the current mapping
EnterEnsureRangeAccessible(t, start, length) ==
    /\ pc = "racing"
    /\ threads[t].at = "idle"
    /\ threads' = [threads EXCEPT ![t] =
          IF BeyondEndOfFile(start, length)
          THEN [IdleThread EXCEPT !.start = start, !.length = length,
                                  !.out = "AudioDecodeError"]
          ELSE IF WindowCovers(start, length, mapping_start, region)
          THEN [at |-> "copy", start |-> start, length |-> length, map_length |-> 0,
                ptr_src |-> region[1].offset + start - mapping_start,
                ptr_gen |-> region_gen,
                ptr_valid |-> /\ start - mapping_start >= 0
                              /\ start - mapping_start + length <= region[1].size,
                out |-> "none"]
          ELSE [IdleThread EXCEPT !.at = "remap", !.start = start, !.length = length]]
    /\ UNCHANGED <<mapping_start, region, region_gen>>
    /\ RaceFrame

\* lines 77-87: mapping_start and length of the new window
SetMappingStart(t) ==
    /\ pc = "racing"
    /\ threads[t].at = "remap"
    /\ mapping_start' = NewMappingStart(threads[t].start)
    /\ threads' = [threads EXCEPT ![t].at = "map",
                                  ![t].map_length = NewMappingLength(threads[t].start,
                                                                     threads[t].length,
                                                                     mapping_start')]
    /\ UNCHANGED <<region, region_gen>>
    /\ RaceFrame

\* lines 89-94: region = make_unique<mapped_region>(*file, read_only,
\* mapping_start, length); the region held before is unmapped
CreateRegion(t) ==
    /\ pc = "racing"
    /\ threads[t].at = "map"
    /\ region_gen < MaxRemaps
    /\ IF MappingFails(mapping_start, threads[t].map_length)
       THEN /\ threads' = [threads EXCEPT ![t].at = "idle", ![t].out = "AudioDecodeError"]
            /\ UNCHANGED <<region, region_gen>>
       ELSE /\ region' = <<[offset |-> mapping_start, size |-> threads[t].map_length]>>
            /\ region_gen' = region_gen + 1
            /\ threads' = [threads EXCEPT ![t].at = "ret"]
    /\ UNCHANGED mapping_start
    /\ RaceFrame

\* line 96: return region->get_address() + start - mapping_start
ReturnPointer(t) ==
    /\ pc = "racing"
    /\ threads[t].at = "ret"
    /\ threads' = [threads EXCEPT
          ![t].at = "copy",
          ![t].ptr_src = region[1].offset + threads[t].start - mapping_start,
          ![t].ptr_gen = region_gen,
          ![t].ptr_valid = /\ threads[t].start - mapping_start >= 0
                           /\ threads[t].start - mapping_start + threads[t].length
                                  <= region[1].size]
    /\ UNCHANGED <<mapping_start, region, region_gen>>
    /\ RaceFrame

\* line 115: memcpy(buf, src, ...).  The bytes are those asked for when the
\* pointer is into the region still mapped, at the offset asked for; a
\* pointer into a region since unmapped, or past the region, is a wild read.
CopyBytes(t) ==
    /\ pc = "racing"
    /\ threads[t].at = "copy"
    /\ threads' = [threads EXCEPT
          ![t].at = "idle",
          ![t].out = IF threads[t].ptr_gen # region_gen \/ ~threads[t].ptr_valid
                     THEN "wild read"
                     ELSE IF threads[t].ptr_src # threads[t].start
                     THEN "wrong bytes"
                     ELSE "ok"]
    /\ UNCHANGED <<mapping_start, region, region_gen>>
    /\ RaceFrame

InitRace == InitLarge("racing", RaceFileSizes)

NextRace ==
    \/ \E t \in Threads, start \in RaceStarts, length \in RaceLengths :
          EnterEnsureRangeAccessible(t, start, length)
    \/ \E t \in Threads : SetMappingStart(t)
    \/ \E t \in Threads : CreateRegion(t)
    \/ \E t \in Threads : ReturnPointer(t)
    \/ \E t \in Threads : CopyBytes(t)

SpecRace == InitRace /\ [][NextRace]_vars

\* ------------------------------------------------------------------------
\* Vocabulary of the properties
\* ------------------------------------------------------------------------
\* CreatePCMAudioProvider returned a provider
Constructed == pc \in {"ready", "returned"}
\* a constructor is in its chunk loop
Walking == pc \in {"riff_walk", "w64_walk"}

\* bytes of one multi-channel sample frame
FrameSize == bytes_per_sample * channels

\* the index points whose sample range holds frame s
BlocksOf(s) ==
    { i \in 1..Len(index_points) :
        /\ index_points[i].start_sample <= s
        /\ s < index_points[i].start_sample + index_points[i].num_samples }

\* where the frame s lies in the file according to the index
FrameOffset(s) ==
    LET ip == index_points[CHOOSE i \in BlocksOf(s) : TRUE]
    IN  ip.start_byte + (s - ip.start_sample) * FrameSize

FrameInFile(s) ==
    /\ BlocksOf(s) # {}
    /\ FrameOffset(s) >= 0
    /\ FrameOffset(s) + FrameSize <= file_size

FramesInFile(s, n) == \A t \in s..(s + n - 1) : FrameInFile(t)

RECURSIVE FramesOfFile(_, _)
\* the bytes of the n frames from s on, read off the file
FramesOfFile(s, n) ==
    IF n <= 0 THEN << >>
    ELSE Bytes(file, FrameOffset(s), FrameSize) \o FramesOfFile(s + 1, n - 1)

\* the bytes of a destination buffer that were written, and whether they
\* are its first bytes
WrittenLen(b) == Cardinality({ i \in 1..Len(b) : b[i] # Unwritten })
WrittenPart(b) == SubSeq(b, 1, WrittenLen(b))
WrittenFirst(b) == \A i \in 1..Len(b) : (b[i] # Unwritten) <=> (i <= WrittenLen(b))

\* chunk positions of the opened file by type
ChunksOfType(t) == { k \in 1..Len(desc.cs) : desc.cs[k].t = t }

\* the file is a valid RIFF WAV file (the RIFF size and every chunk size
\* are those of the bytes present) of one PCM format chunk followed by one
\* data chunk of whole frames, other chunks aside
ValidSingleRiff ==
    /\ desc.container = "riff"
    /\ desc.sz = file_size - 8
    /\ \A k \in 1..Len(desc.cs) : desc.cs[k].phys = RoundUp(desc.cs[k].size, 2)
    /\ Cardinality(ChunksOfType("fmt")) = 1
    /\ Cardinality(ChunksOfType("data")) = 1
    /\ \A j \in ChunksOfType("fmt") : \A k \in ChunksOfType("data") :
          /\ j < k
          /\ desc.cs[j].tag = 1
          /\ desc.cs[j].ch > 0
          /\ desc.cs[j].bits > 0
          /\ desc.cs[k].size % (desc.cs[j].ch * ((desc.cs[j].bits + 7) \div 8)) = 0

\* position, frame count and payload of the data chunk of such a file
TheData == CHOOSE k \in ChunksOfType("data") : TRUE
TheFmt == CHOOSE j \in ChunksOfType("fmt") : TRUE
TheFrames == desc.cs[TheData].size \div (desc.cs[TheFmt].ch * ((desc.cs[TheFmt].bits + 7) \div 8))
ThePayload == Payload(TheData, desc.cs[TheData].size)

\* ------------------------------------------------------------------------
\* C1
\* ------------------------------------------------------------------------
\* C1: a valid RIFF WAV file of one PCM format chunk and a single data chunk
\* of N whole frames is opened by the RIFF parser, the provider has
\* num_samples = N, and FillBuffer(buf, 0, N) fills buf with exactly the
\* payload of the data chunk, byte for byte.
C1_SingleChunkRoundTrip ==
    ValidSingleRiff =>
        /\ pc \notin {"w64_open", "w64_walk", "raised", "crashed"}
        /\ Constructed =>
              /\ parser = "riff"
              /\ num_samples = TheFrames
        /\ (pc = "returned" /\ req = [start |-> 0, count |-> TheFrames]) =>
              /\ fb_exc = "none"
              /\ buf = ThePayload

\* a stereo 16-bit file of four frames was read from first to last frame
C1_Witness ==
    /\ ValidSingleRiff
    /\ pc = "returned"
    /\ TheFrames = 4
    /\ req = [start |-> 0, count |-> 4]
    /\ Len(buf) = 16

\* ------------------------------------------------------------------------
\* C2
\* ------------------------------------------------------------------------
\* the last request lies inside the audio
InRange == req.start >= 0 /\ req.start + req.count <= num_samples

\* the example of the specification: a RIFF WAV file, 16 bit stereo, one
\* data chunk of four frames, frames [1,3) requested
ExampleRead ==
    /\ ValidSingleRiff
    /\ desc.cs[TheFmt].ch = 2
    /\ desc.cs[TheFmt].bits = 16
    /\ TheFrames = 4
    /\ pc = "returned"
    /\ req = [start |-> 1, count |-> 2]

\* C2 as stated: every request inside the audio copies count frames, each
\* from its offset start_byte + (s - start_sample) * bytes_per_sample * channels
C2_Original ==
    (pc = "returned" /\ InRange) =>
        /\ fb_exc = "none"
        /\ Len(buf) = req.count * FrameSize
        /\ FramesInFile(req.start, req.count)
        /\ buf = FramesOfFile(req.start, req.count)

\* C2: a request with 0 <= start and start + count <= num_samples copies
\* exactly count * bytes_per_sample * channels bytes, the bytes of frame s
\* from file offset ip.start_byte + (s - ip.start_sample) * bytes_per_sample
\* * channels of the index point ip holding s, provided the bytes of every
\* requested frame lie in the file; on a file cut short, where they do not,
\* the call throws AudioDecodeError.  For the 16 bit stereo file of four
\* frames, frames [1,3) are the payload bytes [4,12).
C2_InRangeRead ==
    /\ (pc = "returned" /\ InRange) =>
          /\ Len(buf) = req.count * FrameSize
          /\ IF FramesInFile(req.start, req.count)
             THEN /\ fb_exc = "none"
                  /\ buf = FramesOfFile(req.start, req.count)
             ELSE fb_exc = "AudioDecodeError"
    /\ ExampleRead => buf = SubSeq(ThePayload, 5, 12)

\* the example request was served
C2_Witness == ExampleRead /\ fb_exc = "none" /\ Len(buf) = 8

\* ------------------------------------------------------------------------
\* C3
\* ------------------------------------------------------------------------
\* the request (start, count) starts in the index point i and ends in the next one
SpansBoundary(i, start, count) ==
    /\ i + 1 <= Len(index_points)
    /\ count > 0
    /\ i \in BlocksOf(start)
    /\ (i + 1) \in BlocksOf(start + count - 1)

\* first frame of the index point after i
BoundaryAfter(i) == index_points[i].start_sample + index_points[i].num_samples

\* a FillBuffer call that serves a request across the boundary of i
ServesAcross(i) ==
    /\ pc = "ready"
    /\ pc' = "returned"
    /\ SpansBoundary(i, req'.start, req'.count)

\* C3: a request that starts in the data chunk A and ends in the next data
\* chunk B produces the bytes of FillBuffer over its part in A followed by
\* the bytes of FillBuffer over its part in B (and fails as the first of
\* the two that fails); served without error, these are the last frames
\* of A followed by the first frames of B.
C3_SpanningRead ==
    [][\A i \in 1..Len(index_points) :
         ServesAcross(i) =>
           LET e == BoundaryAfter(i)
               a == FillBufferLoop(0, req'.start, e - req'.start, << >>,
                                   mapping_start, region)
               b == FillBufferLoop(0, e, req'.start + req'.count - e, << >>,
                                   a.mapping_start, a.region)
           IN  /\ ~a.wild
               /\ a.exc # "none" => fb_exc' = a.exc /\ WrittenPart(buf') = a.out
               /\ a.exc = "none" =>
                     /\ ~b.wild
                     /\ fb_exc' = b.exc
                     /\ WrittenPart(buf') = a.out \o b.out
               /\ fb_exc' = "none" =>
                     buf' = FramesOfFile(req'.start, e - req'.start)
                                \o FramesOfFile(e, req'.start + req'.count - e)
      ]_vars

\* a request across the boundary of two data chunks was served
C3_Witness ==
    /\ pc = "returned"
    /\ fb_exc = "none"
    /\ \E i \in 1..Len(index_points) :
          /\ SpansBoundary(i, req.start, req.count)
          /\ req.start < BoundaryAfter(i) - 1
          /\ req.start + req.count > BoundaryAfter(i) + 1

\* ------------------------------------------------------------------------
\* C4
\* ------------------------------------------------------------------------
RECURSIVE SumSamples(_, _)
\* sum of num_samples over the first n index points
SumSamples(ips, n) == IF n = 0 THEN 0 ELSE ips[n].num_samples + SumSamples(ips, n - 1)

\* C4: in every state of the chunk walk of either parser (so after every
\* data chunk appended) and of the constructed provider, index_points is in
\* file order, the first point has start_sample = 0, every later point
\* starts at the previous point's start_sample + num_samples, and
\* num_samples is the sum of num_samples over the index points.
C4_IndexContiguous ==
    (Walking \/ Constructed) =>
        /\ \A i \in 1..Len(index_points) :
              /\ index_points[i].start_sample =
                    (IF i = 1 THEN 0
                     ELSE index_points[i - 1].start_sample + index_points[i - 1].num_samples)
              /\ i > 1 => index_points[i - 1].start_byte < index_points[i].start_byte
        /\ num_samples = SumSamples(index_points, Len(index_points))

\* ------------------------------------------------------------------------
\* C5
\* ------------------------------------------------------------------------
\* the last request ends beyond the audio
Overrun == req.start + req.count > num_samples

\* the frames of the last request that the audio holds
FirstHeld == Max(req.start, 0)
HeldFrames == IF req.start < 0 THEN 0 ELSE Max(0, Min(req.count, num_samples - req.start))

\* C5 as stated: a request that ends beyond num_samples fails
C5_Original == (pc = "returned" /\ Overrun) => fb_exc # "none"

\* C5: a call of FillBuffer never reads outside the mapped file, and a
\* request whose end start + count exceeds num_samples does not fail for
\* that: it returns normally when the frames it asks for below num_samples
\* lie in the file, having copied bytes of those frames only, each from
\* inside its data chunk, and throws AudioDecodeError when they lie beyond
\* the end of the file.
C5_OverrunRead ==
    [][pc = "ready" =>
         /\ pc' = "returned"
         /\ Overrun' =>
               /\ fb_exc' = (IF FramesInFile(FirstHeld, HeldFrames) THEN "none"
                             ELSE "AudioDecodeError")'
               /\ WrittenFirst(buf')
               /\ WrittenLen(buf') <= (HeldFrames * FrameSize)'
               /\ \A n \in 1..HeldFrames' :
                     (n * FrameSize <= WrittenLen(buf))' =>
                         /\ FramesInFile(FirstHeld, n)'
                         /\ SubSeq(buf', 1, (n * FrameSize)') = FramesOfFile(FirstHeld, n)'
      ]_vars

\* a request that ends beyond num_samples returned normally with the
\* frames the audio holds
C5_Witness ==
    /\ pc = "returned"
    /\ Overrun
    /\ fb_exc = "none"
    /\ req.start > 0
    /\ HeldFrames > 1
    /\ WrittenLen(buf) = HeldFrames * FrameSize

\* ------------------------------------------------------------------------
\* C6
\* ------------------------------------------------------------------------
\* the last request starts inside the audio and ends beyond it
PartlyHeld == 0 <= req.start /\ req.start < num_samples /\ num_samples < req.start + req.count
\* the last request starts outside the audio
NotHeld == req.start >= num_samples \/ req.start < 0

\* C6 as stated: the overlong request always returns without error
C6_Original ==
    pc = "returned" =>
        /\ PartlyHeld =>
              /\ fb_exc = "none"
              /\ WrittenFirst(buf)
              /\ FramesInFile(req.start, num_samples - req.start)
              /\ WrittenPart(buf) = FramesOfFile(req.start, num_samples - req.start)
        /\ NotHeld => fb_exc = "none" /\ WrittenLen(buf) = 0

\* C6: FillBuffer's loop ends when count reaches zero or the index is
\* exhausted: a request with 0 <= start < num_samples < start + count
\* copies exactly the bytes of the num_samples - start frames, returns
\* without error and leaves the rest of the destination unwritten, provided
\* the bytes of these frames lie in the file (on a file cut short, where
\* they do not, it throws AudioDecodeError); a request with
\* start >= num_samples or start < 0 copies nothing.
C6_ShortRead ==
    pc = "returned" =>
        /\ PartlyHeld =>
              IF FramesInFile(req.start, num_samples - req.start)
              THEN /\ fb_exc = "none"
                   /\ WrittenFirst(buf)
                   /\ WrittenPart(buf) = FramesOfFile(req.start, num_samples - req.start)
                   /\ WrittenLen(buf) < Len(buf)
              ELSE fb_exc = "AudioDecodeError"
        /\ NotHeld => fb_exc = "none" /\ WrittenLen(buf) = 0

\* a request of more frames than the audio holds from its start on was
\* served in part
C6_Witness ==
    /\ pc = "returned"
    /\ PartlyHeld
    /\ fb_exc = "none"
    /\ Len(index_points) = 2
    /\ WrittenLen(buf) > 0
    /\ buf[Len(buf)] = Unwritten

\* ------------------------------------------------------------------------
\* C7
\* ------------------------------------------------------------------------
\* the leading bytes of the file, as far as the file goes, are the
\* "RIFF"/"WAVE" magic
RiffMagic ==
    /\ file_size >= 4
    /\ Bytes(file, 0, 4) = FourccRIFF
    /\ file_size >= 12 => Bytes(file, 8, 4) = FourccWAVE

\* ... are the Wave64 RIFF and WAVE GUIDs
W64Magic ==
    /\ file_size >= 16
    /\ Bytes(file, 0, 16) = w64GuidRIFF
    /\ file_size >= 40 => Bytes(file, 24, 16) = w64GuidWAVE

\* C7: a file of any length whose leading bytes are neither the
\* "RIFF"/"WAVE" magic nor the Wave64 GUID pair is rejected by both parsers
\* with AudioDataNotFoundError, and CreatePCMAudioProvider throws
\* AudioDataNotFoundError and no error of another kind.
C7_NoMagicRejected ==
    (~RiffMagic /\ ~W64Magic) =>
        /\ pc \in {"riff_open", "w64_open", "raised"}
        /\ \A i \in 1..Len(thrown) : thrown[i].exc = "AudioDataNotFoundError"
        /\ pc = "raised" =>
              /\ Len(thrown) = 2
              /\ err.exc = "AudioDataNotFoundError"

\* ------------------------------------------------------------------------
\* C8
\* ------------------------------------------------------------------------
\* the chunk the walk is about to read, read off the file: its type
\* identifier is that of a format chunk, that of a data chunk
FmtChunkAhead ==
    \/ /\ pc = "riff_walk"
       /\ data_left # 0
       /\ filepos + 8 <= file_size
       /\ Bytes(file, filepos, 4) = Fourccfmt
    \/ /\ pc = "w64_walk"
       /\ data_left # 0
       /\ ToInt64(filepos) >= 0
       /\ filepos + 24 <= file_size
       /\ Bytes(file, filepos, 16) = w64Guidfmt

DataChunkAhead ==
    \/ /\ pc = "riff_walk"
       /\ data_left # 0
       /\ filepos + 8 <= file_size
       /\ Bytes(file, filepos, 4) = Fourccdata
    \/ /\ pc = "w64_walk"
       /\ data_left # 0
       /\ ToInt64(filepos) >= 0
       /\ filepos + 24 <= file_size
       /\ Bytes(file, filepos, 16) = w64Guiddata

\* the running constructor throws AudioProviderOpenError with one of the
\* messages texts and constructs no provider
RejectsWith(texts) ==
    /\ Len(thrown') = Len(thrown) + 1
    /\ SubSeq(thrown', 1, Len(thrown)) = thrown
    /\ thrown'[Len(thrown')].parser = parser
    /\ thrown'[Len(thrown')].exc = "AudioProviderOpenError"
    /\ thrown'[Len(thrown')].text \in texts
    /\ pc' = IF parser = "riff" THEN "w64_open" ELSE "raised"

\* a constructor threw AudioProviderOpenError with one of the messages texts
Rejected(texts) ==
    \E i \in 1..Len(thrown) :
        thrown[i].exc = "AudioProviderOpenError" /\ thrown[i].text \in texts

MultipleFmtTexts ==
    {"Invalid file, multiple 'fmt ' chunks", "Bad file, found more than one 'fmt' chunk"}

\* C8: when the chunk walk of either parser comes to a second format
\* chunk, the constructor throws AudioProviderOpenError with the
\* multiple-fmt message; after that no provider is constructed and the
\* error CreatePCMAudioProvider throws is AudioProviderOpenError.
C8_SecondFmtRejected ==
    [][/\ (FmtChunkAhead /\ got_fmt_header) => RejectsWith(MultipleFmtTexts)
       /\ (Rejected(MultipleFmtTexts) =>
              /\ pc \in {"w64_open", "raised"}
              /\ pc = "raised" => err.exc = "AudioProviderOpenError")'
      ]_vars

\* a RIFF WAV file with two format chunks was refused by the factory
C8_Witness ==
    /\ pc = "raised"
    /\ desc.container = "riff"
    /\ Cardinality(ChunksOfType("fmt")) = 2
    /\ Len(thrown) = 2
    /\ thrown[1] = [parser |-> "riff", exc |-> "AudioProviderOpenError",
                    text |-> "Invalid file, multiple 'fmt ' chunks"]
    /\ err.exc = "AudioProviderOpenError"

\* ------------------------------------------------------------------------
\* C9
\* ------------------------------------------------------------------------
DataBeforeFmtTexts == {"Found 'data' chunk before 'fmt ' chunk, file is invalid."}

\* C9: in both parsers a data chunk met before any format chunk aborts the
\* construction with AudioProviderOpenError, and a step of the chunk walk
\* appends an IndexPoint only when got_fmt_header is already true.
C9_DataAfterFmtOnly ==
    [][/\ (DataChunkAhead /\ ~got_fmt_header) => RejectsWith(DataBeforeFmtTexts)
       /\ (Len(index_points') > Len(index_points)) =>
              /\ got_fmt_header
              /\ got_fmt_header'
              /\ Len(index_points') = Len(index_points) + 1
       /\ (Rejected(DataBeforeFmtTexts) => pc \in {"w64_open", "raised"})'
      ]_vars

\* a Wave64 file whose data chunk comes first was refused
C9_Witness ==
    /\ pc = "raised"
    /\ desc.container = "w64"
    /\ Len(thrown) = 2
    /\ thrown[2].parser = "w64"
    /\ thrown[2].text \in DataBeforeFmtTexts
    /\ index_points = << >>

\* ------------------------------------------------------------------------
\* C10
\* ------------------------------------------------------------------------
\* the first format chunk is ahead and its body lies in the file
FirstFmtAhead ==
    /\ FmtChunkAhead
    /\ ~got_fmt_header
    /\ filepos + (IF pc = "riff_walk" THEN 8 + 16 ELSE 56) <= file_size

\* its compression / format tag, read off the file
TagAhead == LE(file, filepos + (IF pc = "riff_walk" THEN 8 ELSE 24), 2)

NotPCMTexts ==
    {"Can't use file, not PCM encoding",
     "File is IEEE 32 bit float format which isn't supported. Bug the developers if this matters."}

\* the tags of the format chunks the constructor of the provider read
TagsRead == { fmt_tag[i].tag : i \in { j \in 1..Len(fmt_tag) : fmt_tag[j].parser = parser } }

\* C10: in both parsers a format chunk whose tag is not 1, tag 3 included,
\* aborts the construction with AudioProviderOpenError, and no provider is
\* constructed whose constructor read a format tag other than 1.
C10_OnlyPCM ==
    [][/\ (FirstFmtAhead /\ TagAhead # 1) => RejectsWith(NotPCMTexts)
       /\ (FirstFmtAhead /\ TagAhead = 1) => (Walking' \/ pc' = "crashed")
       /\ (Constructed => TagsRead \subseteq {1})'
       /\ (Rejected(NotPCMTexts) => pc \in {"w64_open", "raised"})'
      ]_vars

\* a RIFF WAV file of IEEE float samples was refused
C10_Witness ==
    /\ pc = "raised"
    /\ desc.container = "riff"
    /\ Len(thrown) = 2
    /\ thrown[1].parser = "riff"
    /\ thrown[1].text \in NotPCMTexts
    /\ \E i \in 1..Len(fmt_tag) : fmt_tag[i] = [parser |-> "riff", tag |-> 3]
    /\ err.exc = "AudioProviderOpenError"

\* ------------------------------------------------------------------------
\* C11
\* ------------------------------------------------------------------------
\* the exceptions the constructors threw, by kind
ThrownKinds == { thrown[i].exc : i \in 1..Len(thrown) }

\* the diagnostic of both constructors in the order they ran
BothDiagnostics ==
    <<"RIFF PCM WAV audio provider: ", thrown[1].text,
      "\nWave64 audio provider: ", thrown[2].text>>

\* C11: CreatePCMAudioProvider returns the provider of the first
\* constructor (RIFF WAV, then Wave64) that does not throw; when both throw
\* it throws AudioDataNotFoundError if neither threw AudioProviderOpenError
\* and AudioProviderOpenError otherwise, never an error of another kind, and
\* its message is the two diagnostics in the order of the attempts.
C11_FactoryOutcome ==
    /\ Constructed =>
          \/ parser = "riff" /\ thrown = << >>
          \/ parser = "w64" /\ Len(thrown) = 1 /\ thrown[1].parser = "riff"
    /\ pc = "raised" =>
          /\ Len(thrown) = 2
          /\ thrown[1].parser = "riff"
          /\ thrown[2].parser = "w64"
          /\ err.exc \in {"AudioDataNotFoundError", "AudioProviderOpenError"}
          /\ err.exc = "AudioProviderOpenError" <=> "AudioProviderOpenError" \in ThrownKinds
          /\ err.msg = BothDiagnostics

\* ------------------------------------------------------------------------
\* C12
\* ------------------------------------------------------------------------
\* the last EnsureRangeAccessible call returned a pointer
Returned == map_ret.called /\ map_ret.exc = "none"

\* ... and the pointer is to the file bytes asked for, all of them mapped
PointerCorrect == map_ret.src = map_call.start /\ map_ret.valid

\* C12: a mapping the operating system refuses leaves the provider usable:
\* mapping_start is always the file offset of the live region, and a later
\* call that is served from the live region returns a pointer to the file
\* bytes asked for.
C12_MappingFailureRecoverable ==
    /\ region # << >> => mapping_start = region[1].offset
    /\ (Returned /\ ~map_ret.mapped) => PointerCorrect

\* ------------------------------------------------------------------------
\* C13
\* ------------------------------------------------------------------------
\* C13: with two threads in FillBuffer on one provider, a thread holds no
\* pointer into a region another thread has replaced, nor to another file
\* offset than it asked for, and every copy is of the bytes asked for.
C13_ReadsSerialized ==
    \A t \in Threads :
        /\ threads[t].at = "copy" =>
              /\ threads[t].ptr_gen = region_gen
              /\ threads[t].ptr_src = threads[t].start
              /\ threads[t].ptr_valid
        /\ threads[t].out \in {"none", "ok", "AudioDecodeError"}

\* ------------------------------------------------------------------------
\* C14
\* ------------------------------------------------------------------------
\* C14: in both parsers a format chunk that declares no channel, or bits
\* per sample that give bytes_per_sample = 0, aborts the construction: the
\* chunk walk never goes on, and no provider is constructed, with channels
\* or bytes_per_sample zero, so neither is ever a divisor.
C14_ZeroDivisorRejected ==
    ((Walking /\ got_fmt_header) \/ Constructed) =>
        (channels # 0 /\ bytes_per_sample # 0)

\* ------------------------------------------------------------------------
\* C15
\* ------------------------------------------------------------------------
\* C15: no step taken on the constructed provider, a FillBuffer call that
\* returns, throws or faults included, changes index_points, num_samples,
\* sample_rate, channels, bytes_per_sample or file_size.
C15_IndexAndFormatFrozen ==
    [][Constructed =>
          UNCHANGED <<index_points, num_samples, sample_rate, channels, bytes_per_sample,
                      file_size>>]_vars

\* a FillBuffer call has copied frames of a provider of two data chunks
C15_Witness ==
    /\ pc = "returned"
    /\ fb_exc = "none"
    /\ req.count > 0
    /\ WrittenLen(buf) = req.count * FrameSize
    /\ Len(index_points) = 2
    /\ num_samples > 0

\* ------------------------------------------------------------------------
\* C16
\* ------------------------------------------------------------------------
\* RiffWavPCMAudioProvider's constructor threw AudioProviderOpenError
RiffOpenError ==
    /\ Len(thrown) >= 1
    /\ thrown[1].parser = "riff"
    /\ thrown[1].exc = "AudioProviderOpenError"

\* C16 as claimed: once the RIFF WAV constructor has thrown
\* AudioProviderOpenError, CreatePCMAudioProvider throws without starting
\* the construction of a Wave64AudioProvider.
C16_Original ==
    RiffOpenError => (pc = "raised" /\ parser = "riff" /\ Len(thrown) = 1)

\* C16, amended: once the RIFF WAV constructor has thrown
\* AudioProviderOpenError, CreatePCMAudioProvider still runs the Wave64
\* constructor; that one throws AudioDataNotFoundError, no provider is
\* returned, and the error of the factory is AudioProviderOpenError.
C16_OpenErrorStillTriesWave64 ==
    RiffOpenError =>
        /\ pc \in {"w64_open", "raised"}
        /\ parser = "w64"
        /\ pc = "raised" =>
              /\ Len(thrown) = 2
              /\ thrown[2].parser = "w64"
              /\ thrown[2].exc = "AudioDataNotFoundError"
              /\ err.exc = "AudioProviderOpenError"
              /\ err.msg = BothDiagnostics

\* a RIFF WAV file whose data chunk comes first went through both
\* constructors
C16_Witness ==
    /\ pc = "raised"
    /\ RiffOpenError
    /\ thrown[1].text \in DataBeforeFmtTexts
    /\ Len(thrown) = 2
    /\ thrown[2].parser = "w64"
    /\ err.exc = "AudioProviderOpenError"

\* ------------------------------------------------------------------------
\* C17
\* ------------------------------------------------------------------------
\* the live region holds the file bytes [start, start + length) of the
\* last call
WindowHoldsRange ==
    /\ region # << >>
    /\ region[1].offset <= map_call.start
    /\ map_call.start + map_call.length <= region[1].offset + region[1].size

\* C17: after any sequence of EnsureRangeAccessible calls, on the windowed
\* path and on the whole-file path, whatever the length of the file, a call
\* that returns leaves a window that holds [offset, offset + length) and
\* returns a pointer to file byte offset with length mapped bytes behind it.
C17_PointerIntoFile ==
    Returned => (WindowHoldsRange /\ PointerCorrect)

\* ------------------------------------------------------------------------
\* C18
\* ------------------------------------------------------------------------
\* the step is a call of EnsureRangeAccessible
MapCallStep == map_ret'.called /\ os_fault' = os_fault

\* C18: a call EnsureRangeAccessible(offset, length) with offset + length
\* beyond file_size throws AudioDecodeError, creates no mapping and leaves
\* mapping_start and the region as they were.
C18_BeyondEndRefused ==
    [][(MapCallStep /\ map_call'.start + map_call'.length > file_size) =>
          /\ map_ret'.exc = "AudioDecodeError"
          /\ ~map_ret'.mapped
          /\ UNCHANGED <<mapping_start, region>>
      ]_vars

\* a call for a range that begins in the file and ends beyond it was
\* refused while the operating system was granting views
C18_Witness ==
    /\ map_ret.called
    /\ ~os_fault
    /\ map_call.start < file_size
    /\ map_call.start + map_call.length > file_size
    /\ map_ret.exc = "AudioDecodeError"
    /\ region # << >>

\* ------------------------------------------------------------------------
\* C19
\* ------------------------------------------------------------------------
\* C19: on the build with a 32-bit size_t, after a call that mapped a new
\* window, mapping_start is a multiple of 1 MiB not above the offset asked
\* for, the window is at least min(16 MiB, file_size - mapping_start) long
\* and reaches to offset + length, and it ends within the file.
C19_WindowShape ==
    (size_t_width = 4 /\ Returned /\ map_ret.mapped) =>
        /\ mapping_start % MapAlignUnits = 0
        /\ mapping_start <= map_call.start
        /\ region[1].offset = mapping_start
        /\ region[1].size >= Min(MinMapLengthUnits, file_size - mapping_start)
        /\ region[1].size >= map_call.start + map_call.length - mapping_start
        /\ mapping_start + region[1].size <= file_size

\* ------------------------------------------------------------------------
\* C20
\* ------------------------------------------------------------------------
\* the region mapped before the step holds the range the step asks for
WindowHeldRange ==
    /\ region # << >>
    /\ region[1].offset <= map_call'.start
    /\ map_call'.start + map_call'.length <= region[1].offset + region[1].size

\* C20: a call for a range the mapped window already holds returns a
\* pointer into that window, to the file bytes asked for, and creates no
\* mapping: mapping_start and the region are as they were.
C20_ReuseKeepsWindow ==
    [][(MapCallStep /\ WindowHeldRange) =>
          /\ map_ret'.exc = "none"
          /\ ~map_ret'.mapped
          /\ map_ret'.src = map_call'.start
          /\ map_ret'.valid
          /\ UNCHANGED <<mapping_start, region>>
      ]_vars

\* ------------------------------------------------------------------------
\* C21
\* ------------------------------------------------------------------------
\* of the data chunk the walk is about to read, read off the file: the
\* offset of the first byte past its type/size sub-header, and the number
\* of payload bytes it declares (the size field of a Wave64 chunk counts
\* the sub-header)
PayloadStartAhead ==
    filepos + (IF pc = "riff_walk" THEN SizeofChunkHeader ELSE SizeofDataChunk)

PayloadSizeAhead ==
    IF pc = "riff_walk" THEN LE(file, filepos + 4, 4)
    ELSE LE(file, filepos + 16, 8) - SizeofDataChunk

\* the step appends an IndexPoint for the data chunk ahead
IndexesChunkAhead ==
    /\ DataChunkAhead
    /\ channels > 0
    /\ bytes_per_sample > 0
    /\ Len(index_points') = Len(index_points) + 1

\* C21: the IndexPoint either parser builds for a data chunk has for
\* start_byte the file offset of the first payload byte, just past the
\* chunk's type/size sub-header, and for num_samples the number of payload
\* bytes divided by bytes_per_sample and then by channels, remainders
\* dropped.
C21_IndexPointOfPayload ==
    [][IndexesChunkAhead =>
          LET ip == index_points'[Len(index_points')] IN
          /\ ip.start_byte = PayloadStartAhead
          /\ ip.num_samples = (PayloadSizeAhead \div bytes_per_sample) \div channels
      ]_vars

\* ------------------------------------------------------------------------
\* C22
\* ------------------------------------------------------------------------
\* the sub-header of the chunk at the cursor lies in the file
HeaderAhead ==
    \/ pc = "riff_walk" /\ data_left # 0 /\ filepos + SizeofChunkHeader <= file_size
    \/ /\ pc = "w64_walk"
       /\ data_left # 0
       /\ ToInt64(filepos) >= 0
       /\ filepos + SizeofDataChunk <= file_size

\* the bytes from the cursor to the next chunk, by the size the chunk at
\* the cursor declares: its sub-header and payload, word aligned (RIFF WAV);
\* its size, 64 bit aligned (Wave64, whose size field counts the sub-header)
ChunkExtentAhead ==
    IF pc = "riff_walk"
    THEN SizeofChunkHeader + RoundUp(LE(file, filepos + 4, 4), 2)
    ELSE RoundUp(LE(file, filepos + 16, 8), 8)

\* the step is an iteration of the chunk loop that goes on to the next chunk
ChunkWalked == Walking /\ HeaderAhead /\ pc' = pc

\* C22: an iteration of the chunk loop, whatever size the chunk declares,
\* moves the cursor past the chunk by the declared size rounded up to the
\* alignment (2 bytes, 8 bytes), takes the same amount off the remaining
\* size, and wraps neither counter.
C22_CursorAdvance ==
    [][ChunkWalked =>
          /\ filepos' = filepos + ChunkExtentAhead
          /\ data_left' = data_left - ChunkExtentAhead
      ]_vars

\* ------------------------------------------------------------------------
\* C23
\* ------------------------------------------------------------------------
\* a step of CreatePCMAudioProvider and the constructors it runs
ConstructorStep ==
    RiffHeader \/ RiffChunk \/ RiffDone \/ W64Header \/ W64Chunk \/ W64Done

\* The constructors are sequential code: while a statement can be executed,
\* one is.
SpecLive == Init /\ [][Next]_vars /\ WF_vars(ConstructorStep)

\* CreatePCMAudioProvider is still running
Constructing == pc \in {"riff_open", "riff_walk", "w64_open", "w64_walk"}

\* the chunk index has reached the length at which the model leaves the walk
IndexAtBound == Len(index_points) >= MaxIndexPoints

\* C23: for every file the chunk walk of each parser ends: the constructor
\* returns or an exception leaves it after finitely many iterations.
C23_WalkTerminates == <>(~Constructing \/ IndexAtBound)

\* ------------------------------------------------------------------------
\* C24
\* ------------------------------------------------------------------------
\* the format chunks the constructor that ran last has parsed
FmtChunksParsed == { j \in 1..Len(fmt_tag) : fmt_tag[j].parser = parser }

\* C24: a provider either parser has constructed has parsed exactly one
\* format chunk, which set its sample_rate, channels and bytes_per_sample;
\* a file with the container magic and no format chunk yields no provider.
C24_ExactlyOneFmt ==
    Constructed =>
        /\ Cardinality(FmtChunksParsed) = 1
        /\ got_fmt_header
        /\ sample_rate # Indeterminate
        /\ channels # Indeterminate
        /\ bytes_per_sample # Indeterminate

====
